---- MODULE Spec2Model ----
(***************************************************************************)
(* The ECS core of pywrkgame as the repository's Python sources implement  *)
(* it: the entity manager (identifier allocation, live set, free list) and *)
(* the component manager (one component per entity, stored by reference).  *)
(***************************************************************************)
EXTENDS Integers, Sequences, FiniteSets, TLC

\* ------------------------------------------------------------------ bounds

\* The id counter mints at most this many identifiers.
MaxEntities == 3
\* create_entity is called at most this many times in one behaviour.
MaxCreates == 5
\* The component manager alone is exercised with the keys 0 .. MaxKey.
MaxKey == 2

\* At most this many systems are registered.
MaxSystems == 2
\* A puzzle grid has at most this many columns.
MaxDim == 2
\* A puzzle holds at most this many pieces.
MaxPieces == 2
\* A script has at most this many nodes (a node may be added more than once).
MaxNodes == 3
\* A node has at most this many connections.
MaxConnections == 2
\* One execute is followed for at most this many node executions.
MaxExec == 3
\* At most this many gesture events are triggered.
MaxEvents == 3
\* An engine creates at most this many game objects.
MaxObjects == 2
\* Where two managers run side by side, each mints at most this many ids.
MaxPair == 1
PairIds == 1 .. MaxPair

\* Identifiers passed to the entity manager: 0, every id that can be minted,
\* and one id that is never issued.
Ids == 0 .. (MaxEntities + 1)
\* Identifiers passed to the component manager when it is exercised alone.
Keys == 0 .. MaxKey

\* The identifier space, scaled down: 1 .. LargestId are the representable
\* identifiers (2^64 - 1 of them in the specification).
LargestId == MaxEntities

\* ------------------------------------------------------------- Python data

\* Python's None.
None == "None"
\* Mutable component objects (the dicts the caller builds) and their contents.
Objects == {"o1", "o2"}
Contents == {"v1", "v2"}
\* What a caller can pass as component_data: a reference to an object, or None.
Refs == Objects \cup {None}

VARIABLES
    entities,       \* MockEntityManager.entities: the live set
    next_id,        \* MockEntityManager.next_id: the id counter
    available_ids,  \* MockEntityManager.available_ids: the free list
    components,     \* MockComponentManager.components: entity_id -> reference
    heap,           \* the contents of each mutable component object
    ret,            \* the value the most recent call returned
    call,           \* history: the most recent call and what held before it
    held,           \* history: ids returned by create_entity and not destroyed since
    issued,         \* history: every id create_entity has returned so far
    creates,        \* history: number of create_entity calls
    destroys,       \* history: number of destroy_entity calls that returned True
    peak,           \* history: the largest number of entities live at once so far
    attached,       \* per component type, the entities its manager has a component for
    systems,        \* System Manager: the registered systems, in registration order
    pc,             \* System Manager: the system update runs next (0: no frame running)
    invoked,        \* the callback invocations of the current or latest frame, in order
    frame_start,    \* history: attached as it was when the frame began
    registered,     \* history: the systems register_system accepted, in call order
    engine,         \* per Engine object: its state and the game objects it created
    games,          \* per Game object: its fields and where its run() stands
    frame_cb,       \* history: per Game, the update callback the current frame found
    peer,           \* a second Entity Manager with its Component Manager
    puzzle,         \* a PuzzleTemplate: grid, pieces, grid_width, grid_height
    script,         \* a VisualScript with its nodes, and where execute() stands
    touch           \* a MockTouchInputManager

emVars == <<entities, next_id, available_ids>>
ecsVars == <<entities, next_id, available_ids, components, heap, held, issued,
             creates, destroys, peak>>
smVars == <<attached, systems, pc, invoked, frame_start, registered>>
gameVars == <<engine, games, frame_cb>>
appVars == <<puzzle, script, touch>>
vars == <<call, ret, entities, next_id, available_ids, components, heap, held,
          issued, creates, destroys, peak, attached, systems, pc, invoked, frame_start,
          registered, engine, games, frame_cb, appVars, peer>>

\* ------------------------------------------------------------------ helpers

Range(s) == {s[i] : i \in DOMAIN s}
Min(S) == CHOOSE x \in S : \A y \in S : x <= y
NoDuplicates(s) == \A i, j \in DOMAIN s : i # j => s[i] # s[j]
IsAscending(s) == \A i, j \in DOMAIN s : i < j => s[i] < s[j]

\* dict[key] = value
DictSet(d, k, v) == [x \in DOMAIN d \cup {k} |-> IF x = k THEN v ELSE d[x]]
\* del dict[key]
DictDel(d, k) == [x \in DOMAIN d \ {k} |-> d[x]]
\* dict.get(key): the stored value, or None when the key is absent
DictGet(d, k) == IF k \in DOMAIN d THEN d[k] ELSE None
EmptyDict == [x \in {} |-> None]

\* --------------------------------------------------------- MockEntityManager

\* The counter started at 0 instead of 1.
EntityManagerInit_from_zero ==
    /\ entities = {}
    /\ next_id = 0
    /\ available_ids = <<>>

EntityManagerInit ==
    /\ entities = {}
    /\ next_id = 1
    /\ available_ids = <<>>

\* create_entity with the pop forgotten: the head of the free list is handed
\* out again and again.
create_entity_no_pop ==
    /\ IF available_ids # <<>>
          THEN /\ ret' = Head(available_ids)
               /\ UNCHANGED <<available_ids, next_id>>
          ELSE /\ ret' = next_id
               /\ next_id' = next_id + 1
               /\ UNCHANGED available_ids
    /\ entities' = entities \cup {ret'}
    /\ UNCHANGED <<components, heap>>

\* create_entity that takes the free list as a stack: pop() instead of pop(0).
create_entity_lifo ==
    /\ IF available_ids # <<>>
          THEN /\ ret' = available_ids[Len(available_ids)]
               /\ available_ids' = SubSeq(available_ids, 1, Len(available_ids) - 1)
               /\ UNCHANGED next_id
          ELSE /\ ret' = next_id
               /\ next_id' = next_id + 1
               /\ UNCHANGED available_ids
    /\ entities' = entities \cup {ret'}
    /\ UNCHANGED <<components, heap>>

\* create_entity that never looks at the free list.
create_entity_mints_always ==
    /\ ret' = next_id
    /\ next_id' = next_id + 1
    /\ entities' = entities \cup {ret'}
    /\ UNCHANGED <<available_ids, components, heap>>

\* create_entity with the counter's increment forgotten.
create_entity_no_increment ==
    /\ IF available_ids # <<>>
          THEN /\ ret' = Head(available_ids)
               /\ available_ids' = Tail(available_ids)
               /\ UNCHANGED next_id
          ELSE /\ ret' = next_id
               /\ UNCHANGED <<next_id, available_ids>>
    /\ entities' = entities \cup {ret'}
    /\ UNCHANGED <<components, heap>>

create_entity ==
    /\ IF available_ids # <<>>
          THEN /\ ret' = Head(available_ids)
               /\ available_ids' = Tail(available_ids)
               /\ UNCHANGED next_id
          ELSE /\ ret' = next_id
               /\ next_id' = next_id + 1
               /\ UNCHANGED available_ids
    /\ entities' = entities \cup {ret'}
    /\ UNCHANGED <<components, heap>>

\* destroy_entity that forgets the identifier instead of freeing it.
destroy_entity_no_append(entity_id) ==
    /\ IF entity_id \in entities
          THEN /\ entities' = entities \ {entity_id}
               /\ ret' = TRUE
          ELSE /\ ret' = FALSE
               /\ UNCHANGED entities
    /\ UNCHANGED <<available_ids, next_id, components, heap>>

\* destroy_entity without the membership test.
destroy_entity_unchecked(entity_id) ==
    /\ entities' = entities \ {entity_id}
    /\ available_ids' = Append(available_ids, entity_id)
    /\ ret' = TRUE
    /\ UNCHANGED <<next_id, components, heap>>

\* destroy_entity that reports success but leaves the id in the live set.
destroy_entity_keeps_live(entity_id) ==
    /\ IF entity_id \in entities
          THEN /\ UNCHANGED entities
               /\ available_ids' = Append(available_ids, entity_id)
               /\ ret' = TRUE
          ELSE /\ ret' = FALSE
               /\ UNCHANGED <<entities, available_ids>>
    /\ UNCHANGED <<next_id, components, heap>>

\* destroy_entity that puts the id at the front of the free list.
destroy_entity_prepend(entity_id) ==
    /\ IF entity_id \in entities
          THEN /\ entities' = entities \ {entity_id}
               /\ available_ids' = <<entity_id>> \o available_ids
               /\ ret' = TRUE
          ELSE /\ ret' = FALSE
               /\ UNCHANGED <<entities, available_ids>>
    /\ UNCHANGED <<next_id, components, heap>>

destroy_entity(entity_id) ==
    /\ IF entity_id \in entities
          THEN /\ entities' = entities \ {entity_id}
               /\ available_ids' = Append(available_ids, entity_id)
               /\ ret' = TRUE
          ELSE /\ ret' = FALSE
               /\ UNCHANGED <<entities, available_ids>>
    /\ UNCHANGED <<next_id, components, heap>>

is_entity_valid(entity_id) == entity_id \in entities

get_entity_count == Cardinality(entities)

\* ------------------------------------------------------ MockComponentManager

ComponentManagerInit == components = EmptyDict

\* add_component that keeps the component already attached.
add_component_keep_first(entity_id, component_data) ==
    /\ components' = IF entity_id \in DOMAIN components
                        THEN components
                        ELSE DictSet(components, entity_id, component_data)
    /\ ret' = None
    /\ UNCHANGED <<entities, next_id, available_ids, heap>>

\* add_component that asks the entity manager first and refuses an entity
\* that is not live.
add_component_live_only(entity_id, component_data) ==
    /\ components' = IF entity_id \in entities
                        THEN DictSet(components, entity_id, component_data)
                        ELSE components
    /\ ret' = IF entity_id \in entities THEN None ELSE "NotFound"
    /\ UNCHANGED <<entities, next_id, available_ids, heap>>

add_component(entity_id, component_data) ==
    /\ components' = DictSet(components, entity_id, component_data)
    /\ ret' = None
    /\ UNCHANGED <<entities, next_id, available_ids, heap>>

\* remove_component that tests for the key after deleting it.
remove_component_late_test(entity_id) ==
    /\ components' = DictDel(components, entity_id)
    /\ ret' = (entity_id \in DOMAIN components')
    /\ UNCHANGED <<entities, next_id, available_ids, heap>>

\* remove_component that empties the whole store: clear() instead of del.
remove_component_clear(entity_id) ==
    /\ IF entity_id \in DOMAIN components
          THEN /\ components' = EmptyDict
               /\ ret' = TRUE
          ELSE /\ ret' = FALSE
               /\ UNCHANGED components
    /\ UNCHANGED <<entities, next_id, available_ids, heap>>

\* What remove_component leaves in the store and what it returns.
remove_component_outcome(entity_id) ==
    IF entity_id \in DOMAIN components
       THEN [components |-> DictDel(components, entity_id), ret |-> TRUE]
       ELSE [components |-> components, ret |-> FALSE]

remove_component(entity_id) ==
    /\ components' = remove_component_outcome(entity_id).components
    /\ ret' = remove_component_outcome(entity_id).ret
    /\ UNCHANGED <<entities, next_id, available_ids, heap>>

has_component(entity_id) == entity_id \in DOMAIN components

get_component(entity_id) == DictGet(components, entity_id)

\* entity_destroyed that empties the store.
entity_destroyed_clear(entity_id) ==
    /\ components' = EmptyDict
    /\ ret' = None
    /\ UNCHANGED <<entities, next_id, available_ids, heap>>

\* entity_destroyed calls remove_component and drops what it returns.
entity_destroyed(entity_id) ==
    /\ components' = remove_component_outcome(entity_id).components
    /\ ret' = None
    /\ UNCHANGED <<entities, next_id, available_ids, heap>>

\* ------------------------------------------------------------ System Manager

\* The component types, each with a Component Manager of its own, and the
\* entities the systems are run against.
CompTypes == {"Position", "Velocity"}
SysEntities == {"A", "B"}
\* What can be passed as a callback: a callable, or None.
Callbacks == {"callback", None}

SystemManagerInit ==
    /\ attached = [t \in CompTypes |-> {}]
    /\ systems = <<>>
    /\ pc = 0
    /\ invoked = <<>>
    /\ frame_start = [t \in CompTypes |-> {}]
    /\ registered = <<>>

\* ----------------------------------------------------------- Engine and Game

\* The Game objects, the Engine each of them owns, and one Engine the caller
\* constructs directly.
Games == {"g1", "g2"}
Engines == Games \cup {"raw"}
\* What can be passed to on_update: a function, or None.
UpdateCallbacks == {"c1", "c2", None}
\* The delta times a frame can measure.
Deltas == {"d1", "d2"}

\* pwg.Engine(): not initialized, no game object.
NewEngine == [state |-> "created", objects |-> 0]

\* Game.__init__ constructs its engine and initializes it; "raw" is as
\* pwg.Engine() leaves it.
EngineInit ==
    engine = [e \in Engines |->
                 IF e \in Games THEN [NewEngine EXCEPT !.state = "initialized"]
                                ELSE NewEngine]

\* The fields Game.__init__ sets, and run() not entered.
NewGame ==
    [sprites |-> <<>>, update_callback |-> None, running |-> FALSE,
     pc |-> "idle", delta |-> None, events |-> <<>>]

GameInit ==
    /\ games = [g \in Games |-> NewGame]
    /\ frame_cb = [g \in Games |-> None]

\* MockEntityManager() and MockComponentManager(), constructed a second time.
PeerInit ==
    peer = [entities |-> {}, next_id |-> 1, available_ids |-> <<>>,
            components |-> EmptyDict]

\* -------------------------------------------------------------- VisualScript

\* The VisualScriptNode objects of a program (none is false: the class has
\* neither __bool__ nor __len__).
Nodes == {"n1", "n2"}

\* VisualScript.__init__ (nodes, start_node) and VisualScriptNode.__init__
\* (connections, as the list of the targets) of each node; no execute is
\* under way, and none has executed a node.
ScriptInit ==
    script = [nodes |-> <<>>, start_node |-> None,
              connections |-> [n \in Nodes |-> <<>>],
              pc |-> "idle", current |-> None, executed |-> <<>>]

\* ----------------------------------------------------- MockTouchInputManager

\* max_touch_points of a mobile manager and of any other.
MobileMaxTouchPoints == 10
DesktopMaxTouchPoints == 1

\* Where a touch is (its x, y and pressure, as one value).
Positions == {"p1", "p2"}
\* The fingers that are put down again, moved and lifted one by one; the
\* others are put down at p1 and stay until clear_touches.
MovingIds == {1, 2}
GestureTypes == {"tap", "pinch"}
\* The callables a program registers, none of which raises or calls the
\* manager.
GestureCallbacks == {"h1", "h2"}

\* MockTouchInputManager(is_mobile).  gesture_callbacks maps a type to its
\* callback, or to None when the dictionary has no such key; invoked is
\* what the callbacks have been called with, in order.
NewManager(is_mobile) ==
    [is_mobile |-> is_mobile,
     max_touch_points |-> IF is_mobile THEN MobileMaxTouchPoints
                                       ELSE DesktopMaxTouchPoints,
     active_touches |-> <<>>,
     gesture_callbacks |-> [g \in GestureTypes |-> None],
     gesture_events |-> <<>>,
     invoked |-> <<>>]

\* MockTouchInputManager(): is_mobile defaults to True.
TouchInit == touch = NewManager(TRUE)


\* ------------------------------------------------------------ PuzzleTemplate

\* A reference to a piece is the piece's position in pieces (pieces is only
\* ever appended to); NoPiece is the None of an empty cell and of a refused
\* add_piece.
NoPiece == 0
PieceTypes == {"red"}

\* PuzzleTemplate.__init__: no grid (grid_is_none tells None from the empty
\* list), no pieces, both dimensions 0.
PuzzleInit ==
    puzzle = [grid_is_none |-> TRUE, grid |-> <<>>, pieces |-> <<>>,
              grid_width |-> 0, grid_height |-> 0]

\* What a reader finds in a retrieved component: the contents of the object
\* the reference leads to (None has none).
Value(ref) == IF ref = None THEN None ELSE heap[ref]

\* ------------------------------------------------------------------- calls

\* The record of a call: the operation, its entity argument, the component
\* data passed, whether the argument was live (entity manager) or had a
\* component (component manager) before the call, and what get_component
\* returned for it before the call.
Called(op, entity_id, data, had, old) ==
    [op |-> op, entity_id |-> entity_id, data |-> data, had |-> had, old |-> old,
     on |-> "ecs"]

\* The record of a call on an Engine or a Game object: the operation, the
\* object it was called on and its argument.
CalledOn(object, op, data) ==
    [op |-> op, entity_id |-> 0, data |-> data, had |-> FALSE, old |-> None,
     on |-> object]

Init ==
    /\ EntityManagerInit
    /\ ComponentManagerInit
    /\ heap = [o \in Objects |-> "v1"]
    /\ ret = None
    /\ call = Called("none", 0, None, FALSE, None)
    /\ held = {}
    /\ issued = {}
    /\ creates = 0
    /\ destroys = 0
    /\ peak = 0
    /\ SystemManagerInit
    /\ EngineInit
    /\ GameInit
    /\ PeerInit
    /\ PuzzleInit
    /\ ScriptInit
    /\ TouchInit

CreateEntity ==
    /\ creates < MaxCreates
    /\ available_ids = <<>> => next_id <= MaxEntities
    /\ create_entity
    /\ call' = Called("create_entity", 0, None, FALSE, None)
    /\ held' = held \cup {ret'}
    /\ issued' = issued \cup {ret'}
    /\ creates' = creates + 1
    /\ peak' = IF Cardinality(entities') > peak THEN Cardinality(entities') ELSE peak
    /\ UNCHANGED <<destroys, smVars, gameVars, appVars, peer>>

DestroyEntity(entity_id) ==
    /\ destroy_entity(entity_id)
    /\ call' = Called("destroy_entity", entity_id, None, is_entity_valid(entity_id),
                      get_component(entity_id))
    /\ held' = IF ret' THEN held \ {entity_id} ELSE held
    /\ destroys' = IF ret' THEN destroys + 1 ELSE destroys
    /\ peak' = IF Cardinality(entities') > peak THEN Cardinality(entities') ELSE peak
    /\ UNCHANGED <<issued, creates, smVars, gameVars, appVars, peer>>

AddComponent(entity_id, component_data) ==
    /\ add_component(entity_id, component_data)
    /\ call' = Called("add_component", entity_id, component_data,
                      has_component(entity_id), get_component(entity_id))
    /\ UNCHANGED <<held, issued, creates, destroys, peak, smVars, gameVars, appVars, peer>>

RemoveComponent(entity_id) ==
    /\ remove_component(entity_id)
    /\ call' = Called("remove_component", entity_id, None,
                      has_component(entity_id), get_component(entity_id))
    /\ UNCHANGED <<held, issued, creates, destroys, peak, smVars, gameVars, appVars, peer>>

EntityDestroyed(entity_id) ==
    /\ entity_destroyed(entity_id)
    /\ call' = Called("entity_destroyed", entity_id, None,
                      has_component(entity_id), get_component(entity_id))
    /\ UNCHANGED <<held, issued, creates, destroys, peak, smVars, gameVars, appVars, peer>>

\* The caller changes a field of a component object it still holds.
CallerMutates(o, v) ==
    /\ heap[o] # v
    /\ heap' = [heap EXCEPT ![o] = v]
    /\ call' = Called("caller_mutates", 0, o, FALSE, None)
    /\ UNCHANGED <<entities, next_id, available_ids, components, ret,
                   held, issued, creates, destroys, peak, smVars, gameVars, appVars, peer>>

\* ----------------------------------------------- System Manager: operations

\* has_component of the Component Manager of type t.
has_component_of(t, e) == e \in attached[t]

\* The entities that have a component of every type of the signature.
Matching(signature) ==
    {e \in SysEntities : \A t \in signature : has_component_of(t, e)}

\* The entities that had a component of every type of the signature when the
\* frame began.
MatchingAtFrameStart(signature) ==
    {e \in SysEntities : \A t \in signature : e \in frame_start[t]}

\* register_system that puts the new system in front: insert(0, ...).
register_system_prepend(signature, callback) ==
    /\ IF callback = None \/ signature = {}
          THEN /\ ret' = "InvalidArgument"
               /\ UNCHANGED systems
          ELSE /\ ret' = None
               /\ systems' = <<[signature |-> signature, callback |-> callback]>>
                                 \o systems
    /\ UNCHANGED <<attached, pc, invoked>>

\* register_system: a null callback or an empty signature is refused with
\* InvalidArgument, anything else is stored behind the systems registered so far.
register_system(signature, callback) ==
    /\ IF callback = None \/ signature = {}
          THEN /\ ret' = "InvalidArgument"
               /\ UNCHANGED systems
          ELSE /\ ret' = None
               /\ systems' = Append(systems, [signature |-> signature,
                                              callback |-> callback])
    /\ UNCHANGED <<attached, pc, invoked>>

\* update, first part: the frame begins with the first registered system.
update_begin ==
    /\ pc' = IF systems = <<>> THEN 0 ELSE 1
    /\ invoked' = <<>>
    /\ UNCHANGED <<attached, systems>>

\* The entity set made of the entities that have any one of the types.
EntitySetFor_any_type(system) ==
    {e \in SysEntities : \E t \in system.signature : has_component_of(t, e)}

\* The entity set update hands to the callback of a system.
EntitySetFor(system) == Matching(system.signature)

\* update, one system: its entity set is computed and its callback is invoked
\* once with it; the next system in registration order follows.
update_run_system ==
    /\ invoked' = Append(invoked, [system |-> pc,
                                   entities |-> EntitySetFor(systems[pc])])
    /\ pc' = IF pc = Len(systems) THEN 0 ELSE pc + 1
    /\ ret' = None
    /\ UNCHANGED <<attached, systems>>

RegisterSystem(signature, callback) ==
    /\ pc = 0
    /\ Len(systems) < MaxSystems
    /\ register_system(signature, callback)
    /\ call' = Called("register_system", 0, callback, FALSE, None)
    /\ registered' = IF ret' = None
                        THEN Append(registered, [signature |-> signature,
                                                 callback |-> callback])
                        ELSE registered
    /\ UNCHANGED <<appVars, peer, gameVars, ecsVars, frame_start>>

UpdateBegin ==
    /\ pc = 0
    /\ update_begin
    /\ ret' = None
    /\ frame_start' = attached
    /\ call' = Called("update_begin", 0, None, FALSE, None)
    /\ UNCHANGED <<appVars, peer, gameVars, ecsVars, registered>>

UpdateRunSystem ==
    /\ pc \in 1 .. Len(systems)
    /\ update_run_system
    /\ call' = Called("update_run_system", pc, None, FALSE, None)
    /\ UNCHANGED <<appVars, peer, gameVars, ecsVars, frame_start, registered>>

\* Between frames the engine, and within a frame the callback that has just
\* run, may attach and detach components.
MayWriteComponents == pc = 0 \/ invoked # <<>>

\* add_component on the Component Manager of type t.
AttachComponent(t, e) ==
    /\ MayWriteComponents
    /\ e \notin attached[t]
    /\ attached' = [attached EXCEPT ![t] = @ \cup {e}]
    /\ call' = Called("attach", 0, None, FALSE, None)
    /\ UNCHANGED <<appVars, peer, gameVars, ecsVars, ret, systems, pc, invoked, frame_start, registered>>

\* remove_component on the Component Manager of type t.
DetachComponent(t, e) ==
    /\ MayWriteComponents
    /\ e \in attached[t]
    /\ attached' = [attached EXCEPT ![t] = @ \ {e}]
    /\ call' = Called("detach", 0, None, FALSE, None)
    /\ UNCHANGED <<appVars, peer, gameVars, ecsVars, ret, systems, pc, invoked, frame_start, registered>>

\* The System Manager over the Component Managers of two component types.
NextSM ==
    \/ \E sig \in SUBSET CompTypes, cb \in Callbacks : RegisterSystem(sig, cb)
    \/ UpdateBegin
    \/ UpdateRunSystem
    \/ \E t \in CompTypes, e \in SysEntities : AttachComponent(t, e)
    \/ \E t \in CompTypes, e \in SysEntities : DetachComponent(t, e)

\* ------------------------------------------------------------------- Engine

is_initialized(e) == engine[e].state = "initialized"

\* engine.initialize(config)
engine_initialize(e) ==
    /\ engine' = [engine EXCEPT ![e].state = "initialized"]
    /\ ret' = TRUE

\* engine.update that runs without looking at the engine's state.
engine_update_unchecked(e) ==
    /\ ret' = None
    /\ UNCHANGED engine

\* engine.update(delta_time): PyWRKGameError unless the engine is initialized.
engine_update(e) ==
    /\ ret' = IF is_initialized(e) THEN None ELSE "PyWRKGameError"
    /\ UNCHANGED engine

\* engine.render(): PyWRKGameError unless the engine is initialized.
engine_render(e) ==
    /\ ret' = IF is_initialized(e) THEN None ELSE "PyWRKGameError"
    /\ UNCHANGED engine

\* engine.create_game_object(): PyWRKGameError unless the engine is initialized.
engine_create_game_object(e) ==
    IF is_initialized(e)
       THEN /\ engine' = [engine EXCEPT ![e].objects = @ + 1]
            /\ ret' = "GameObject"
       ELSE /\ ret' = "PyWRKGameError"
            /\ UNCHANGED engine

\* engine.shutdown()
engine_shutdown(e) ==
    /\ engine' = [engine EXCEPT ![e].state = "shutdown"]
    /\ ret' = None

EngineInitialize(e) ==
    /\ engine[e].state = "created"
    /\ engine_initialize(e)
    /\ call' = CalledOn(e, "engine_initialize", None)
    /\ UNCHANGED <<ecsVars, smVars, appVars, peer, games, frame_cb>>

EngineUpdate(e) ==
    /\ engine_update(e)
    /\ call' = CalledOn(e, "engine_update", None)
    /\ UNCHANGED <<ecsVars, smVars, appVars, peer, games, frame_cb>>

EngineRender(e) ==
    /\ engine_render(e)
    /\ call' = CalledOn(e, "engine_render", None)
    /\ UNCHANGED <<ecsVars, smVars, appVars, peer, games, frame_cb>>

EngineCreateGameObject(e) ==
    /\ engine[e].objects < MaxObjects
    /\ engine_create_game_object(e)
    /\ call' = CalledOn(e, "engine_create_game_object", None)
    /\ UNCHANGED <<ecsVars, smVars, appVars, peer, games, frame_cb>>

EngineShutdown(e) ==
    /\ engine_shutdown(e)
    /\ call' = CalledOn(e, "engine_shutdown", None)
    /\ UNCHANGED <<ecsVars, smVars, appVars, peer, games, frame_cb>>

\* Engine objects driven directly by the caller.
NextEngine ==
    \/ \E e \in Engines : EngineInitialize(e)
    \/ \E e \in Engines : EngineUpdate(e)
    \/ \E e \in Engines : EngineRender(e)
    \/ \E e \in Engines : EngineCreateGameObject(e)
    \/ \E e \in Engines : EngineShutdown(e)

\* --------------------------------------------------------------------- Game

\* The calling program is single-threaded: it calls a Game's methods either
\* while no run() is executing or from inside an update callback.
NoGameRuns == \A g \in Games : games[g].pc = "idle"
UserCodeRuns == NoGameRuns \/ \E g \in Games : games[g].pc = "in_callback"

\* stop() of a program that keeps one engine for all its games.
game_stop_shared_engine(g) ==
    /\ games' = [games EXCEPT ![g].running = FALSE]
    /\ engine' = [e \in Engines |-> [engine[e] EXCEPT !.state = "shutdown"]]
    /\ ret' = None

\* After the callback, a loop that goes straight to rendering.
game_callback_returns_skip_update(g) ==
    /\ games[g].pc = "in_callback"
    /\ games' = [games EXCEPT ![g].pc = "engine_render"]
    /\ UNCHANGED <<engine, ret>>

\* create_sprite that puts the new sprite in front of the others.
game_create_sprite_prepend(g, texture_path) ==
    IF is_initialized(g)
       THEN /\ engine' = [engine EXCEPT ![g].objects = @ + 1]
            /\ games' = [games EXCEPT ![g].sprites =
                            <<[texture_path |-> texture_path,
                               game_object |-> engine[g].objects + 1]>> \o @]
            /\ ret' = "Sprite"
       ELSE /\ ret' = "PyWRKGameError"
            /\ UNCHANGED <<engine, games>>

\* game.create_sprite(texture_path): Sprite.__init__ asks the game's engine for
\* a game object; when that raises, nothing is appended.
game_create_sprite(g, texture_path) ==
    IF is_initialized(g)
       THEN /\ engine' = [engine EXCEPT ![g].objects = @ + 1]
            /\ games' = [games EXCEPT ![g].sprites =
                            Append(@, [texture_path |-> texture_path,
                                       game_object |-> engine[g].objects + 1])]
            /\ ret' = "Sprite"
       ELSE /\ ret' = "PyWRKGameError"
            /\ UNCHANGED <<engine, games>>

\* on_update that keeps the callback registered first.
game_on_update_keep_first(g, callback) ==
    /\ games' = [games EXCEPT ![g].update_callback =
                    IF @ = None THEN callback ELSE @]
    /\ ret' = callback
    /\ UNCHANGED engine

\* game.on_update(callback)
game_on_update(g, callback) ==
    /\ games' = [games EXCEPT ![g].update_callback = callback]
    /\ ret' = callback
    /\ UNCHANGED engine

\* game.stop()
game_stop(g) ==
    /\ games' = [games EXCEPT ![g].running = FALSE]
    /\ engine' = [engine EXCEPT ![g].state = "shutdown"]
    /\ ret' = None

\* game.run(), up to the loop
game_run(g) ==
    /\ games[g].pc = "idle"
    /\ games' = [games EXCEPT ![g].running = TRUE, ![g].pc = "test"]
    /\ UNCHANGED <<engine, ret>>

\* while self.running: a new iteration measures its delta time; otherwise
\* run() returns.
game_run_test(g, delta_time) ==
    /\ games[g].pc = "test"
    /\ IF games[g].running
          THEN /\ games' = [games EXCEPT ![g].pc = "callback",
                                         ![g].delta = delta_time,
                                         ![g].events = <<>>]
               /\ UNCHANGED ret
          ELSE /\ games' = [games EXCEPT ![g].pc = "idle", ![g].delta = None,
                                         ![g].events = <<>>]
               /\ ret' = None
    /\ UNCHANGED engine

\* if self.update_callback: self.update_callback(delta_time)
game_run_callback(g) ==
    /\ games[g].pc = "callback"
    /\ IF games[g].update_callback # None
          THEN games' = [games EXCEPT
                            ![g].pc = "in_callback",
                            ![g].events = Append(@, [step |-> "callback",
                                                     fn |-> games[g].update_callback,
                                                     dt |-> games[g].delta])]
          ELSE games' = [games EXCEPT ![g].pc = "engine_update"]
    /\ UNCHANGED <<engine, ret>>

\* The callback returns to the loop.
game_callback_returns(g) ==
    /\ games[g].pc = "in_callback"
    /\ games' = [games EXCEPT ![g].pc = "engine_update"]
    /\ UNCHANGED <<engine, ret>>

\* The callback raises: the exception leaves run().
game_callback_raises(g) ==
    /\ games[g].pc = "in_callback"
    /\ games' = [games EXCEPT ![g].pc = "idle", ![g].delta = None,
                              ![g].events = <<>>]
    /\ ret' = "Exception"
    /\ UNCHANGED engine

\* self.engine.update(delta_time); its exception leaves run().
game_run_update(g) ==
    /\ games[g].pc = "engine_update"
    /\ IF is_initialized(g)
          THEN /\ games' = [games EXCEPT
                               ![g].pc = "engine_render",
                               ![g].events = Append(@, [step |-> "update",
                                                        fn |-> None,
                                                        dt |-> games[g].delta])]
               /\ UNCHANGED ret
          ELSE /\ games' = [games EXCEPT ![g].pc = "idle", ![g].delta = None,
                                         ![g].events = <<>>]
               /\ ret' = "PyWRKGameError"
    /\ UNCHANGED engine

\* self.engine.render(), then the sleep that ends the iteration.
game_run_render(g) ==
    /\ games[g].pc = "engine_render"
    /\ IF is_initialized(g)
          THEN /\ games' = [games EXCEPT
                               ![g].pc = "test",
                               ![g].events = Append(@, [step |-> "render",
                                                        fn |-> None,
                                                        dt |-> None])]
               /\ UNCHANGED ret
          ELSE /\ games' = [games EXCEPT ![g].pc = "idle", ![g].delta = None,
                                         ![g].events = <<>>]
               /\ ret' = "PyWRKGameError"
    /\ UNCHANGED engine

CreateSprite(g) ==
    /\ UserCodeRuns
    /\ engine[g].objects < MaxObjects
    /\ game_create_sprite(g, "player.png")
    /\ call' = CalledOn(g, "create_sprite", "player.png")
    /\ UNCHANGED <<ecsVars, smVars, appVars, peer, frame_cb>>

OnUpdate(g, callback) ==
    /\ UserCodeRuns
    /\ game_on_update(g, callback)
    /\ call' = CalledOn(g, "on_update", callback)
    /\ UNCHANGED <<ecsVars, smVars, appVars, peer, frame_cb>>

Stop(g) ==
    /\ UserCodeRuns
    /\ game_stop(g)
    /\ call' = CalledOn(g, "stop", None)
    /\ UNCHANGED <<ecsVars, smVars, appVars, peer, frame_cb>>

Run(g) ==
    /\ NoGameRuns
    /\ game_run(g)
    /\ call' = CalledOn(g, "run", None)
    /\ UNCHANGED <<ecsVars, smVars, appVars, peer, frame_cb>>

RunTest(g, delta_time) ==
    /\ game_run_test(g, delta_time)
    /\ call' = CalledOn(g, "run_test", delta_time)
    /\ frame_cb' = [frame_cb EXCEPT ![g] = None]
    /\ UNCHANGED <<ecsVars, smVars, appVars, peer>>

RunCallback(g) ==
    /\ game_run_callback(g)
    /\ call' = CalledOn(g, "run_callback", None)
    /\ frame_cb' = [frame_cb EXCEPT ![g] = games[g].update_callback]
    /\ UNCHANGED <<ecsVars, smVars, appVars, peer>>

CallbackReturns(g) ==
    /\ game_callback_returns(g)
    /\ call' = CalledOn(g, "callback_returns", None)
    /\ UNCHANGED <<ecsVars, smVars, appVars, peer, frame_cb>>

CallbackRaises(g) ==
    /\ game_callback_raises(g)
    /\ call' = CalledOn(g, "callback_raises", None)
    /\ frame_cb' = [frame_cb EXCEPT ![g] = None]
    /\ UNCHANGED <<ecsVars, smVars, appVars, peer>>

RunUpdate(g) ==
    /\ game_run_update(g)
    /\ call' = CalledOn(g, "run_update", None)
    /\ frame_cb' = [frame_cb EXCEPT ![g] = IF is_initialized(g) THEN @ ELSE None]
    /\ UNCHANGED <<ecsVars, smVars, appVars, peer>>

RunRender(g) ==
    /\ game_run_render(g)
    /\ call' = CalledOn(g, "run_render", None)
    /\ frame_cb' = [frame_cb EXCEPT ![g] = IF is_initialized(g) THEN @ ELSE None]
    /\ UNCHANGED <<ecsVars, smVars, appVars, peer>>

\* A program that builds games, registers callbacks and runs them.
NextGame ==
    \/ \E g \in Games : CreateSprite(g)
    \/ \E g \in Games, c \in UpdateCallbacks : OnUpdate(g, c)
    \/ \E g \in Games : Stop(g)
    \/ \E g \in Games : Run(g)
    \/ \E g \in Games, d \in Deltas : RunTest(g, d)
    \/ \E g \in Games : RunCallback(g)
    \/ \E g \in Games : CallbackReturns(g)
    \/ \E g \in Games : CallbackRaises(g)
    \/ \E g \in Games : RunUpdate(g)
    \/ \E g \in Games : RunRender(g)

\* ------------------------------------------------- two contexts side by side

\* create_entity on the second manager
PeerCreateEntity ==
    /\ peer.available_ids = <<>> => peer.next_id <= MaxPair
    /\ IF peer.available_ids # <<>>
          THEN /\ peer' = [peer EXCEPT !.available_ids = Tail(@),
                                       !.entities = @ \cup {Head(peer.available_ids)}]
               /\ ret' = Head(peer.available_ids)
          ELSE /\ peer' = [peer EXCEPT !.next_id = @ + 1,
                                       !.entities = @ \cup {peer.next_id}]
               /\ ret' = peer.next_id
    /\ call' = [Called("create_entity", 0, None, FALSE, None) EXCEPT !.on = "peer"]
    /\ UNCHANGED <<ecsVars, smVars, gameVars, appVars>>

\* destroy_entity on the second manager
PeerDestroyEntity(entity_id) ==
    /\ IF entity_id \in peer.entities
          THEN /\ peer' = [peer EXCEPT !.entities = @ \ {entity_id},
                                       !.available_ids = Append(@, entity_id)]
               /\ ret' = TRUE
          ELSE /\ ret' = FALSE
               /\ UNCHANGED peer
    /\ call' = [Called("destroy_entity", entity_id, None, entity_id \in peer.entities,
                       None) EXCEPT !.on = "peer"]
    /\ UNCHANGED <<ecsVars, smVars, gameVars, appVars>>

\* add_component on the second component manager
PeerAddComponent(entity_id, component_data) ==
    /\ peer' = [peer EXCEPT !.components = DictSet(@, entity_id, component_data)]
    /\ ret' = None
    /\ call' = [Called("add_component", entity_id, component_data,
                       entity_id \in DOMAIN peer.components,
                       DictGet(peer.components, entity_id)) EXCEPT !.on = "peer"]
    /\ UNCHANGED <<ecsVars, smVars, gameVars, appVars>>

\* remove_component on the second component manager
PeerRemoveComponent(entity_id) ==
    /\ IF entity_id \in DOMAIN peer.components
          THEN /\ peer' = [peer EXCEPT !.components = DictDel(@, entity_id)]
               /\ ret' = TRUE
          ELSE /\ ret' = FALSE
               /\ UNCHANGED peer
    /\ call' = [Called("remove_component", entity_id, None,
                       entity_id \in DOMAIN peer.components,
                       DictGet(peer.components, entity_id)) EXCEPT !.on = "peer"]
    /\ UNCHANGED <<ecsVars, smVars, gameVars, appVars>>

\* create_entity on the first manager, as often as on the second.
PairCreateEntity ==
    /\ creates < MaxPair
    /\ CreateEntity

\* create_sprite on a game, as often as an entity manager mints.
PairCreateSprite(g) ==
    /\ Len(games[g].sprites) < MaxPair
    /\ CreateSprite(g)

\* Two entity managers, two component managers and two games in one program.
NextPair ==
    \/ PairCreateEntity
    \/ \E id \in PairIds : DestroyEntity(id)
    \/ AddComponent(1, "o1")
    \/ RemoveComponent(1)
    \/ PeerCreateEntity
    \/ \E id \in PairIds : PeerDestroyEntity(id)
    \/ PeerAddComponent(1, "o2")
    \/ PeerRemoveComponent(1)
    \/ \E g \in Games : PairCreateSprite(g)
    \/ \E g \in Games : OnUpdate(g, "c1")
    \/ \E g \in Games : Stop(g)

\* ------------------------------------------------- PuzzleTemplate operations

\* if self.grid: None and the empty list are false.
GridIsTrue == ~puzzle.grid_is_none /\ puzzle.grid # <<>>

\* Python's list index: i counts from 0, a negative i from the end.
IndexOk(i, n) == -n <= i /\ i < n
PyIndex(i, n) == IF i >= 0 THEN i + 1 ELSE n + i + 1

\* grid[row][col] can be read.
CellOk(col, row) ==
    /\ IndexOk(row, Len(puzzle.grid))
    /\ IndexOk(col, Len(puzzle.grid[PyIndex(row, Len(puzzle.grid))]))

\* grid[row][col]
Cell(grid, col, row) ==
    grid[PyIndex(row, Len(grid))][PyIndex(col, Len(grid[PyIndex(row, Len(grid))]))]

\* grid[row][col] = piece
SetCell(grid, col, row, piece) ==
    [grid EXCEPT ![PyIndex(row, Len(grid))]
                  [PyIndex(col, Len(grid[PyIndex(row, Len(grid))]))] = piece]

\* puzzle.create_grid(cols, rows)
puzzle_create_grid(cols, rows) ==
    /\ puzzle' = [puzzle EXCEPT
                     !.grid_width = cols,
                     !.grid_height = rows,
                     !.grid_is_none = FALSE,
                     !.grid = [r \in 1 .. rows |-> [c \in 1 .. cols |-> NoPiece]]]
    /\ ret' = None

\* add_piece that leaves the piece out of the grid.
puzzle_add_piece_list_only(col, row, piece_type) ==
    IF /\ GridIsTrue
       /\ 0 <= row /\ row < puzzle.grid_height
       /\ 0 <= col /\ col < puzzle.grid_width
       THEN /\ puzzle' = [puzzle EXCEPT
                             !.pieces = Append(@, [col |-> col, row |-> row,
                                                   type |-> piece_type])]
            /\ ret' = Len(puzzle.pieces) + 1
       ELSE /\ ret' = NoPiece
            /\ UNCHANGED puzzle

\* puzzle.add_piece(col, row, piece_type)
puzzle_add_piece(col, row, piece_type) ==
    IF /\ GridIsTrue
       /\ 0 <= row /\ row < puzzle.grid_height
       /\ 0 <= col /\ col < puzzle.grid_width
       THEN /\ puzzle' = [puzzle EXCEPT
                             !.grid = SetCell(@, col, row, Len(puzzle.pieces) + 1),
                             !.pieces = Append(@, [col |-> col, row |-> row,
                                                   type |-> piece_type])]
            /\ ret' = Len(puzzle.pieces) + 1
       ELSE /\ ret' = NoPiece
            /\ UNCHANGED puzzle

\* A swap that reads the second cell after writing the first.
swapped_no_temp(grid, col1, row1, col2, row2) ==
    SetCell(grid, col1, row1, Cell(grid, col2, row2))

\* The grid after the four lines of swap_pieces: both cells are read, then
\* both are written.
swapped(grid, col1, row1, col2, row2) ==
    LET piece1 == Cell(grid, col1, row1)
        piece2 == Cell(grid, col2, row2)
    IN  SetCell(SetCell(grid, col1, row1, piece2), col2, row2, piece1)

\* puzzle.swap_pieces(col1, row1, col2, row2): an index out of range raises
\* while the cells are read, before any change.
puzzle_swap_pieces(col1, row1, col2, row2) ==
    IF GridIsTrue
       THEN IF CellOk(col1, row1) /\ CellOk(col2, row2)
               THEN /\ puzzle' = [puzzle EXCEPT
                                     !.grid = swapped(@, col1, row1, col2, row2)]
                    /\ ret' = None
               ELSE /\ ret' = "IndexError"
                    /\ UNCHANGED puzzle
       ELSE /\ ret' = None
            /\ UNCHANGED puzzle

CreateGrid(cols, rows) ==
    /\ puzzle_create_grid(cols, rows)
    /\ call' = CalledOn("puzzle", "create_grid", None)
    /\ UNCHANGED <<ecsVars, smVars, gameVars, peer, script, touch>>

AddPiece(col, row, piece_type) ==
    /\ Len(puzzle.pieces) < MaxPieces
    /\ puzzle_add_piece(col, row, piece_type)
    /\ call' = CalledOn("puzzle", "add_piece", piece_type)
    /\ UNCHANGED <<ecsVars, smVars, gameVars, peer, script, touch>>

SwapPieces(col1, row1, col2, row2) ==
    /\ puzzle_swap_pieces(col1, row1, col2, row2)
    /\ call' = CalledOn("puzzle", "swap_pieces", None)
    /\ UNCHANGED <<ecsVars, smVars, gameVars, peer, script, touch>>

\* Sizes a caller asks for, and coordinates it passes: in range and above.
\* A grid has no row or one: the cells of one row tell the columns apart,
\* and a row from a column.
ColCounts == 0 .. MaxDim
RowCounts == {0, 1}
Cols == 0 .. MaxDim
Rows == {0, 1}

NextPuzzle ==
    \/ \E cols \in ColCounts, rows \in RowCounts : CreateGrid(cols, rows)
    \/ \E col \in Cols, row \in Rows, t \in PieceTypes : AddPiece(col, row, t)
    \/ \E col1, col2 \in Cols, row1, row2 \in Rows :
          SwapPieces(col1, row1, col2, row2)

\* --------------------------------------------------- VisualScript operations

\* add_node that makes every node added the start node.
script_add_node_last_wins(node) ==
    /\ script' = [script EXCEPT !.nodes = Append(@, node), !.start_node = node]
    /\ ret' = None

\* script.add_node(node)
script_add_node(node) ==
    /\ script' = [script EXCEPT
                     !.nodes = Append(@, node),
                     !.start_node = IF @ = None THEN node ELSE @]
    /\ ret' = None

\* node.connect_to(other_node, output_name, input_name)
node_connect_to(node, other_node) ==
    /\ script' = [script EXCEPT !.connections[node] = Append(@, other_node)]
    /\ ret' = None

\* script.execute(), up to the first test of the loop: with no start node
\* it returns at once.
script_execute ==
    /\ script' = IF script.start_node # None
                    THEN [script EXCEPT !.pc = "loop",
                                        !.current = script.start_node,
                                        !.executed = <<>>]
                    ELSE script
    /\ ret' = None

\* One turn of the loop of execute: the current node executes (it does
\* nothing), then its first connection is followed, or the loop is left.
script_execute_turn ==
    /\ script' = IF script.connections[script.current] # <<>>
                    THEN [script EXCEPT
                             !.executed = Append(@, script.current),
                             !.current = script.connections[script.current][1]]
                    ELSE [script EXCEPT
                             !.executed = Append(@, script.current),
                             !.current = None,
                             !.pc = "idle"]
    /\ ret' = None

AddNode(node) ==
    /\ script.pc = "idle"
    /\ Len(script.nodes) < MaxNodes
    /\ script_add_node(node)
    /\ call' = CalledOn("script", "add_node", node)
    /\ UNCHANGED <<ecsVars, smVars, gameVars, peer, puzzle, touch>>

ConnectTo(node, other_node) ==
    /\ script.pc = "idle"
    /\ Len(script.connections[node]) < MaxConnections
    /\ node_connect_to(node, other_node)
    /\ call' = CalledOn("script", "connect_to", node)
    /\ UNCHANGED <<ecsVars, smVars, gameVars, peer, puzzle, touch>>

Execute ==
    /\ script.pc = "idle"
    /\ script_execute
    /\ call' = CalledOn("script", "execute", None)
    /\ UNCHANGED <<ecsVars, smVars, gameVars, peer, puzzle, touch>>

ExecuteTurn ==
    /\ script.pc = "loop"
    /\ Len(script.executed) < MaxExec
    /\ script_execute_turn
    /\ UNCHANGED call
    /\ UNCHANGED <<ecsVars, smVars, gameVars, peer, puzzle, touch>>

NextScript ==
    \/ \E node \in Nodes : AddNode(node)
    \/ \E node, other_node \in Nodes : ConnectTo(node, other_node)
    \/ Execute
    \/ ExecuteTurn

\* ------------------------------------------ MockTouchInputManager operations

\* The place of the first active touch with this id, 0 when there is none.
IndexOfId(touch_id) ==
    IF \E i \in 1 .. Len(touch.active_touches) : touch.active_touches[i].id = touch_id
       THEN CHOOSE i \in 1 .. Len(touch.active_touches) :
                /\ touch.active_touches[i].id = touch_id
                /\ \A j \in 1 .. i - 1 : touch.active_touches[j].id # touch_id
       ELSE 0

\* add_touch_point without the test of the limit.
touch_add_touch_point_no_limit(t) ==
    /\ touch' = IF IndexOfId(t.id) # 0
                   THEN [touch EXCEPT !.active_touches[IndexOfId(t.id)] = t]
                   ELSE [touch EXCEPT !.active_touches = Append(@, t)]
    /\ ret' = TRUE

\* manager.add_touch_point(touch)
touch_add_touch_point(t) ==
    IF Len(touch.active_touches) < touch.max_touch_points
       THEN /\ touch' = IF IndexOfId(t.id) # 0
                           THEN [touch EXCEPT !.active_touches[IndexOfId(t.id)] = t]
                           ELSE [touch EXCEPT !.active_touches = Append(@, t)]
            /\ ret' = TRUE
       ELSE /\ ret' = FALSE
            /\ UNCHANGED touch

\* manager.remove_touch_point(touch_id)
touch_remove_touch_point(touch_id) ==
    /\ touch' = [touch EXCEPT
                    !.active_touches = SelectSeq(@, LAMBDA t : t.id # touch_id)]
    /\ ret' = None

\* manager.update_touch_point(touch_id, x, y, pressure)
touch_update_touch_point(touch_id, x) ==
    IF IndexOfId(touch_id) # 0
       THEN /\ touch' = [touch EXCEPT !.active_touches[IndexOfId(touch_id)].x = x]
            /\ ret' = TRUE
       ELSE /\ ret' = FALSE
            /\ UNCHANGED touch

\* manager.clear_touches()
touch_clear_touches ==
    /\ touch' = [touch EXCEPT !.active_touches = <<>>]
    /\ ret' = None

\* manager.register_gesture_callback(gesture_type, callback)
touch_register_gesture_callback(gesture_type, callback) ==
    /\ touch' = [touch EXCEPT !.gesture_callbacks[gesture_type] = callback]
    /\ ret' = None

\* manager.unregister_gesture_callback(gesture_type)
touch_unregister_gesture_callback(gesture_type) ==
    /\ touch' = [touch EXCEPT !.gesture_callbacks[gesture_type] = None]
    /\ ret' = None

\* trigger_gesture_callback that records only the events it has a callback for.
touch_trigger_gesture_callback_if_registered(event) ==
    /\ touch' = IF touch.gesture_callbacks[event.type] # None
                   THEN [touch EXCEPT
                            !.invoked = Append(@, <<touch.gesture_callbacks[event.type],
                                                    event>>),
                            !.gesture_events = Append(@, event)]
                   ELSE touch
    /\ ret' = None

\* manager.trigger_gesture_callback(event)
touch_trigger_gesture_callback(event) ==
    /\ touch' = IF touch.gesture_callbacks[event.type] # None
                   THEN [touch EXCEPT
                            !.invoked = Append(@, <<touch.gesture_callbacks[event.type],
                                                    event>>),
                            !.gesture_events = Append(@, event)]
                   ELSE [touch EXCEPT !.gesture_events = Append(@, event)]
    /\ ret' = None

\* A call of the manager about the touch touch_id: had tells whether that
\* id was active when the call was made.
CalledTouch(op, touch_id, data) ==
    [CalledOn("touch", op, data) EXCEPT
        !.entity_id = touch_id, !.had = IndexOfId(touch_id) # 0]

\* The id of a finger that is not down: the smallest id that is not active.
NewId ==
    CHOOSE i \in 1 .. MobileMaxTouchPoints + 1 :
        /\ IndexOfId(i) = 0
        /\ \A j \in 1 .. i - 1 : IndexOfId(j) # 0

Construct(is_mobile) ==
    /\ touch' = NewManager(is_mobile)
    /\ ret' = None
    /\ call' = CalledOn("touch", "__init__", None)
    /\ UNCHANGED <<ecsVars, smVars, gameVars, peer, puzzle, script>>

AddTouchPoint(t) ==
    /\ touch_add_touch_point(t)
    /\ call' = CalledTouch("add_touch_point", t.id, t.x)
    /\ UNCHANGED <<ecsVars, smVars, gameVars, peer, puzzle, script>>

RemoveTouchPoint(touch_id) ==
    /\ touch_remove_touch_point(touch_id)
    /\ call' = CalledTouch("remove_touch_point", touch_id, None)
    /\ UNCHANGED <<ecsVars, smVars, gameVars, peer, puzzle, script>>

UpdateTouchPoint(touch_id, x) ==
    /\ touch_update_touch_point(touch_id, x)
    /\ call' = CalledTouch("update_touch_point", touch_id, x)
    /\ UNCHANGED <<ecsVars, smVars, gameVars, peer, puzzle, script>>

ClearTouches ==
    /\ touch_clear_touches
    /\ call' = CalledOn("touch", "clear_touches", None)
    /\ UNCHANGED <<ecsVars, smVars, gameVars, peer, puzzle, script>>

NextTouch ==
    \/ \E is_mobile \in BOOLEAN : Construct(is_mobile)
    \/ \E touch_id \in MovingIds, x \in Positions :
          AddTouchPoint([id |-> touch_id, x |-> x])
    \/ AddTouchPoint([id |-> NewId, x |-> "p1"])
    \/ \E touch_id \in MovingIds : RemoveTouchPoint(touch_id)
    \/ \E touch_id \in MovingIds, x \in Positions : UpdateTouchPoint(touch_id, x)
    \/ ClearTouches

RegisterGestureCallback(gesture_type, callback) ==
    /\ touch_register_gesture_callback(gesture_type, callback)
    /\ call' = [CalledOn("touch", "register_gesture_callback", gesture_type)
                   EXCEPT !.old = callback]
    /\ UNCHANGED <<ecsVars, smVars, gameVars, peer, puzzle, script>>

UnregisterGestureCallback(gesture_type) ==
    /\ touch_unregister_gesture_callback(gesture_type)
    /\ call' = CalledOn("touch", "unregister_gesture_callback", gesture_type)
    /\ UNCHANGED <<ecsVars, smVars, gameVars, peer, puzzle, script>>

\* Each trigger passes a new event object: n tells the events of one type
\* apart.
TriggerGestureCallback(gesture_type) ==
    /\ Len(touch.gesture_events) < MaxEvents
    /\ touch_trigger_gesture_callback(
           [type |-> gesture_type, n |-> Len(touch.gesture_events) + 1])
    /\ call' = CalledOn("touch", "trigger_gesture_callback", gesture_type)
    /\ UNCHANGED <<ecsVars, smVars, gameVars, peer, puzzle, script>>

NextGesture ==
    \/ \E g \in GestureTypes, callback \in GestureCallbacks :
          RegisterGestureCallback(g, callback)
    \/ \E g \in GestureTypes : UnregisterGestureCallback(g)
    \/ \E g \in GestureTypes : TriggerGestureCallback(g)

\* create_entity called whatever the counter has reached.
CreateEntityUnbounded ==
    /\ creates < MaxCreates
    /\ create_entity
    /\ call' = Called("create_entity", 0, None, FALSE, None)
    /\ held' = held \cup {ret'}
    /\ issued' = issued \cup {ret'}
    /\ creates' = creates + 1
    /\ peak' = IF Cardinality(entities') > peak THEN Cardinality(entities') ELSE peak
    /\ UNCHANGED <<destroys, smVars, gameVars, appVars, peer>>

\* The entity manager alone.
NextEM ==
    \/ CreateEntity
    \/ \E id \in Ids : DestroyEntity(id)

SpecEM == Init /\ [][NextEM]_vars

\* The entity manager alone, driven past the last representable identifier.
NextCap ==
    \/ CreateEntityUnbounded
    \/ \E id \in Ids : DestroyEntity(id)

SpecCap == Init /\ [][NextCap]_vars

SpecSM == Init /\ [][NextSM]_vars

SpecEngine == Init /\ [][NextEngine]_vars

SpecGame == Init /\ [][NextGame]_vars

SpecPair == Init /\ [][NextPair]_vars

SpecPuzzle == Init /\ [][NextPuzzle]_vars

SpecScript == Init /\ [][NextScript]_vars

SpecTouch == Init /\ [][NextTouch]_vars

SpecGesture == Init /\ [][NextGesture]_vars

\* The component manager alone, with every kind of component_data.
NextCM ==
    \/ \E e \in Keys, r \in Refs : AddComponent(e, r)
    \/ \E e \in Keys : RemoveComponent(e)
    \/ \E e \in Keys : EntityDestroyed(e)
    \/ \E o \in Objects, v \in Contents : CallerMutates(o, v)

SpecCM == Init /\ [][NextCM]_vars

\* Both managers of one engine, driven by one caller.
Next ==
    \/ CreateEntity
    \/ \E id \in Ids : DestroyEntity(id)
    \/ \E e \in Ids : AddComponent(e, "o1")
    \/ \E e \in Ids : RemoveComponent(e)
    \/ \E e \in Ids : EntityDestroyed(e)

Spec == Init /\ [][Next]_vars

\* Both managers of one engine, components attached under the keys 0..MaxKey.
NextECS ==
    \/ CreateEntity
    \/ \E id \in Ids : DestroyEntity(id)
    \/ \E e \in Keys : AddComponent(e, "o1")
    \/ \E e \in Keys : RemoveComponent(e)
    \/ \E e \in Keys : EntityDestroyed(e)

SpecECS == Init /\ [][NextECS]_vars

\* ------------------------------------------------------------------ queries

\* A call of is_entity_valid: the membership test and nothing else.
query_is_entity_valid(entity_id) ==
    /\ ret' = is_entity_valid(entity_id)
    /\ UNCHANGED <<entities, next_id, available_ids, components, heap>>

\* A call of get_entity_count: len() of the live set.
query_get_entity_count ==
    /\ ret' = get_entity_count
    /\ UNCHANGED <<entities, next_id, available_ids, components, heap>>

\* A call of has_component: the key test and nothing else.
query_has_component(entity_id) ==
    /\ ret' = has_component(entity_id)
    /\ UNCHANGED <<entities, next_id, available_ids, components, heap>>

\* get_component written with setdefault: a miss leaves a None entry behind.
query_get_component_setdefault(entity_id) ==
    /\ ret' = get_component(entity_id)
    /\ components' = IF entity_id \in DOMAIN components
                        THEN components
                        ELSE DictSet(components, entity_id, None)
    /\ UNCHANGED <<entities, next_id, available_ids, heap>>

\* A call of get_component: dict.get, which inserts nothing on a miss.
query_get_component(entity_id) ==
    /\ ret' = get_component(entity_id)
    /\ UNCHANGED <<entities, next_id, available_ids, components, heap>>

QueryNames == {"is_entity_valid", "get_entity_count", "has_component", "get_component"}

\* One call of a query; get_entity_count takes no argument.
Query(q, entity_id) ==
    /\ q \in QueryNames
    /\ q = "get_entity_count" => entity_id = 0
    /\ CASE q = "is_entity_valid" -> query_is_entity_valid(entity_id)
         [] q = "get_entity_count" -> query_get_entity_count
         [] q = "has_component" -> query_has_component(entity_id)
         [] q = "get_component" -> query_get_component(entity_id)
    /\ call' = Called(q, entity_id, None, FALSE, None)
    /\ UNCHANGED <<held, issued, creates, destroys, peak, smVars, gameVars, appVars, peer>>

\* Both managers, with queries between the mutating calls.
NextQuery ==
    \/ CreateEntity
    \/ \E id \in Ids : DestroyEntity(id)
    \/ \E e \in PairIds : AddComponent(e, "o1")
    \/ \E e \in PairIds : RemoveComponent(e)
    \/ \E q \in QueryNames, e \in Keys : Query(q, e)

SpecQuery == Init /\ [][NextQuery]_vars

\* add_component as a caller issues it who first asks is_entity_valid.
AddComponentToLive(entity_id) ==
    /\ is_entity_valid(entity_id)
    /\ AddComponent(entity_id, "o1")

\* Both managers, driven by a caller that attaches components to live
\* entities only.
NextLive ==
    \/ CreateEntity
    \/ \E id \in Ids : DestroyEntity(id)
    \/ \E e \in Ids : AddComponentToLive(e)
    \/ \E e \in Ids : RemoveComponent(e)
    \/ \E e \in Ids : EntityDestroyed(e)

SpecLive == Init /\ [][NextLive]_vars

\* ------------------------------------------------------------------ claims

\* C1: create_entity never returns an identifier that is live at the moment
\* of the call: the id it returns is outside the live set, and outside the set
\* of ids returned earlier and not destroyed since.
C1_CreateReturnsNoLiveId ==
    [][call'.op = "create_entity" => ret' \notin entities /\ ret' \notin held]_vars

\* C1 witness: create_entity has just handed out a recycled id while another
\* entity is live and another freed id is still waiting.
C1_Witness ==
    /\ call.op = "create_entity"
    /\ ret < next_id - 1
    /\ Cardinality(entities) >= 2
    /\ available_ids # <<>>

\* C2: get_entity_count() is the cardinality of the live set, which is the
\* number of create_entity calls minus the number of destroy_entity calls that
\* returned success.
C2_CountIsCreatesMinusDestroys ==
    /\ get_entity_count = Cardinality(entities)
    /\ Cardinality(entities) = creates - destroys

\* C2 witness: several creations, several successful destructions and a
\* failed one, with entities still live.
C2_Witness ==
    /\ creates >= 4
    /\ destroys >= 2
    /\ call.op = "destroy_entity"
    /\ ~ret
    /\ get_entity_count >= 1

\* C3: the identifier 0 is never live: is_entity_valid(0) is false and
\* create_entity never returns 0, also after destroy_entity(0).
C3_ZeroIsNeverLive ==
    /\ 0 \notin entities
    /\ ~is_entity_valid(0)
    /\ call.op = "create_entity" => ret # 0

\* C3 witness: destroy_entity(0) has just been called on a manager that holds
\* live entities and freed ids.
C3_Witness ==
    /\ call.op = "destroy_entity"
    /\ call.entity_id = 0
    /\ ~ret
    /\ entities # {}
    /\ available_ids # <<>>

\* C4: after a successful destroy_entity(e), has_component(e) is false in the
\* component manager, without the caller calling entity_destroyed(e).
C4_DestroyCascades ==
    call.op = "destroy_entity" /\ ret => ~has_component(call.entity_id)

C6_DestroyNotLiveFails ==
    [][/\ NoDuplicates(available_ids')
       /\ call'.op = "destroy_entity" /\ call'.entity_id \notin entities
             => ~ret' /\ UNCHANGED emVars]_vars

\* C6 witness: destroy_entity has just failed on an id that sits in the free
\* list (a second destruction of the same id).
C6_Witness ==
    /\ call.op = "destroy_entity"
    /\ ~ret
    /\ call.entity_id \in Range(available_ids)

\* C7: is_entity_valid(id) is true exactly for the ids returned by
\* create_entity and not successfully destroyed since; destroy_entity of a
\* live id returns True, makes the id invalid and appends it to the tail of
\* the free list.
C7_ValidIffHeld ==
    [][/\ \A id \in Ids : is_entity_valid(id)' <=> id \in held'
       /\ \A id \in Ids :
             call'.op = "destroy_entity" /\ call'.entity_id = id /\ id \in entities
                => /\ ret'
                   /\ ~is_entity_valid(id)'
                   /\ available_ids' = Append(available_ids, id)]_vars

\* C7 witness: a successful destroy_entity has just put its id behind another
\* freed id, with other entities still live.
C7_Witness ==
    /\ call.op = "destroy_entity"
    /\ ret
    /\ Len(available_ids) >= 2
    /\ available_ids[Len(available_ids)] = call.entity_id
    /\ entities # {}

\* C8: right after add_component(e, v), has_component(e) is true and
\* get_component(e) returns v, whatever was attached to e before.
C8_GetAfterAdd ==
    call.op = "add_component"
       => /\ has_component(call.entity_id)
          /\ get_component(call.entity_id) = call.data

\* C8 witness: add_component has just overwritten a different component of
\* the same entity.
C8_Witness ==
    /\ call.op = "add_component"
    /\ call.had
    /\ call.old # call.data
    /\ call.data \in Objects

\* C9: remove_component(e) returns True exactly when e had a component, and
\* afterwards has_component(e) is false; when e had none the store is unchanged.
C9_RemoveReportsPresence ==
    [][\A e \in Ids :
          call'.op = "remove_component" /\ call'.entity_id = e
             => /\ ret' = has_component(e)
                /\ ~has_component(e)'
                /\ ~has_component(e) => components' = components]_vars

\* C9 witness: remove_component has just been called for an entity without a
\* component while other entities have one.
C9_Witness ==
    /\ call.op = "remove_component"
    /\ ~call.had
    /\ ~ret
    /\ DOMAIN components # {}

\* C10: what get_component returns for an entity without a component differs
\* from everything it returns for an entity that has one.
C10_MissingIsDistinguishable ==
    \A e, f \in Keys :
       ~has_component(e) /\ has_component(f) => get_component(e) # get_component(f)

\* The entity the most recent call was applied to: the id create_entity
\* returned, or the entity argument of the other calls.
Target == IF call.op = "create_entity" THEN ret ELSE call.entity_id

\* C11: a call applied to entity e1, successful or not, leaves
\* is_entity_valid(e2), has_component(e2) and get_component(e2) as they were
\* for every other entity e2.
C11_NonInterference ==
    [][LET e1 == Target'
       IN  \A e2 \in Ids \ {e1} :
              /\ is_entity_valid(e2)' <=> is_entity_valid(e2)
              /\ has_component(e2)' <=> has_component(e2)
              /\ get_component(e2)' = get_component(e2)]_vars

\* C11 witness: a remove_component that found nothing has just run while
\* another entity is live and has a component.
C11_Witness ==
    /\ call.op = "remove_component"
    /\ ~ret
    /\ \E e2 \in Ids :
          e2 # call.entity_id /\ is_entity_valid(e2) /\ has_component(e2)

\* C12: add_component stores a copy: what a reader finds in get_component(e)
\* changes only through add_component(e, _), remove_component(e) or
\* entity_destroyed(e), never through a change the caller makes to an object
\* it passed.
C12_StoredCopyIsIsolated ==
    [][\A e \in Keys :
          Value(get_component(e))' # Value(get_component(e))
             => /\ call'.op \in {"add_component", "remove_component", "entity_destroyed"}
                /\ call'.entity_id = e]_vars

\* C13: on a manager where nothing has been destroyed, the n-th create_entity
\* call returns n; whenever the free list is empty, create_entity returns an
\* id greater than every id issued before.
C13_FreshIdsAscend ==
    [][call'.op = "create_entity"
          => /\ destroys = 0 => ret' = creates'
             /\ available_ids = <<>> => \A i \in issued : ret' > i]_vars

\* C13 witness: the third create_entity of a manager that destroyed nothing
\* has just returned 3.
C13_Witness ==
    /\ call.op = "create_entity"
    /\ destroys = 0
    /\ creates >= 3
    /\ ret = creates
    /\ issued = 1 .. ret

\* C16: with the free list empty and every representable identifier issued,
\* create_entity returns no identifier and leaves the live set, the free list
\* and the counter unchanged.
C16_ExhaustedCreateFails ==
    [][call'.op = "create_entity" /\ available_ids = <<>> /\ next_id > LargestId
          => UNCHANGED emVars /\ ret' \notin Int]_vars

C15_RegistrationOrder ==
    /\ \A k \in DOMAIN invoked :
          /\ k \in DOMAIN registered
          /\ systems[invoked[k].system] = registered[k]
    /\ \A i, j \in DOMAIN invoked : i < j => invoked[i].system < invoked[j].system
    /\ call.op = "update_run_system" /\ pc = 0 => Len(invoked) = Len(registered)

\* C15 witness: a frame over two different systems has just ended.
C15_Witness ==
    /\ call.op = "update_run_system"
    /\ pc = 0
    /\ Len(invoked) = 2
    /\ registered[1] # registered[2]

\* C19: update, render and create_game_object on an engine that is not
\* initialized fail with PyWRKGameError and leave it not initialized; after an
\* initialize that returned True, is_initialized() is true.
C19_UninitializedEngineFails ==
    [][\A e \in Engines :
          /\ (/\ call'.on = e
              /\ call'.op \in {"engine_update", "engine_render",
                               "engine_create_game_object"}
              /\ ~is_initialized(e))
                => ret' = "PyWRKGameError" /\ ~is_initialized(e)' /\ engine' = engine
          /\ (call'.on = e /\ call'.op = "engine_initialize" /\ ret')
                => is_initialized(e)']_vars

\* C19 witness: create_game_object has just failed on the engine that was
\* never initialized, while another engine holds game objects.
C19_Witness ==
    /\ call.on = "raw"
    /\ call.op = "engine_create_game_object"
    /\ ret = "PyWRKGameError"
    /\ engine["raw"].state = "created"
    /\ \E e \in Games : engine[e].objects > 0

\* C18: registering a null callback is rejected with InvalidArgument and the
\* callback run each frame stays what it was; None is never stored by a
\* registration.
C18_NullCallbackRejected ==
    [][\A g \in Games :
          (call'.on = g /\ call'.op = "on_update" /\ call'.data = None)
             => /\ ret' = "InvalidArgument"
                /\ games'[g].update_callback = games[g].update_callback]_vars

\* The steps an iteration of run() makes when it found the callback fn.
FrameSteps(fn) ==
    (IF fn # None THEN <<"callback">> ELSE <<>>) \o <<"update", "render">>

\* C20: in every iteration of Game.run the update callback, when one is set,
\* is invoked once with the iteration's delta time, then engine.update with the
\* same delta time, then engine.render: what an iteration has done so far is a
\* prefix of that sequence, and an iteration that reaches its end has done all
\* of it.
C20_CallbackUpdateRender ==
    \A g \in Games :
       LET ev == games[g].events
           expected == FrameSteps(frame_cb[g])
       IN  /\ Len(ev) <= Len(expected)
           /\ \A i \in DOMAIN ev :
                 /\ ev[i].step = expected[i]
                 /\ ev[i].step \in {"callback", "update"} => ev[i].dt = games[g].delta
                 /\ ev[i].step = "callback" => ev[i].fn = frame_cb[g]
           /\ games[g].pc = "in_callback" => Len(ev) = 1 /\ frame_cb[g] # None
           /\ games[g].pc = "engine_update" => Len(ev) = Len(expected) - 2
           /\ games[g].pc = "engine_render" => Len(ev) = Len(expected) - 1
           /\ (call.on = g /\ call.op = "run_render" /\ games[g].pc = "test")
                 => Len(ev) = Len(expected)

\* C20 witness: an iteration of g1 has ended after calling c2 with d2, the
\* engine's update and its render.
C20_Witness ==
    /\ call.on = "g1"
    /\ call.op = "run_render"
    /\ games["g1"].pc = "test"
    /\ frame_cb["g1"] = "c2"
    /\ Len(games["g1"].events) = 3
    /\ games["g1"].events[1] = [step |-> "callback", fn |-> "c2", dt |-> "d2"]
    /\ games["g1"].events[2].dt = "d2"

\* The objects a program constructs independently of one another: the two
\* entity managers with their component managers, and the games.
Instances == {"ecs", "peer"} \cup Games

\* What the claim names of an instance: live set, free list, id counter and
\* component store of a manager; sprite list, update callback and an engine
\* that still accepts calls of a game.
InstanceState(x) ==
    IF x = "ecs"
       THEN [entities |-> entities, next_id |-> next_id,
             available_ids |-> available_ids, components |-> components]
       ELSE IF x = "peer"
               THEN peer
               ELSE [sprites |-> games[x].sprites,
                     update_callback |-> games[x].update_callback,
                     usable |-> is_initialized(x)]

\* C17: independently constructed instances share no state: an operation on
\* one of them, stop included, leaves the live set, free list, id counter,
\* component store, sprite list, update callback and usability of every other
\* instance as they were.
C17_InstancesShareNoState ==
    [][\A x \in Instances : \A y \in Instances \ {x} :
          call'.on = x => InstanceState(y)' = InstanceState(y)]_vars

\* C17 witness: with g1 stopped and both managers holding different state,
\* create_sprite on g2 has just succeeded and g2 keeps its callback.
C17_Witness ==
    /\ call.on = "g2"
    /\ call.op = "create_sprite"
    /\ ret = "Sprite"
    /\ ~is_initialized("g1")
    /\ games["g1"].sprites # <<>>
    /\ games["g2"].update_callback = "c1"
    /\ games["g1"].update_callback = None
    /\ entities = {1}
    /\ 1 \in DOMAIN components
    /\ peer.entities = {}
    /\ peer.available_ids = <<1>>
    /\ peer.components = EmptyDict

\* C21: with a non-empty free list create_entity returns the head of the free
\* list, removes it from the list and leaves the counter; with an empty free
\* list it returns the counter's value and increments the counter by one.
C21_ReuseBeforeMint ==
    [][call'.op = "create_entity"
          => IF available_ids # <<>>
                THEN /\ ret' = Head(available_ids)
                     /\ available_ids' = Tail(available_ids)
                     /\ next_id' = next_id
                ELSE /\ ret' = next_id
                     /\ next_id' = next_id + 1
                     /\ available_ids' = <<>>]_vars

\* C21 witness: create_entity has just handed out the earliest freed id, with
\* a later freed id still in the free list and the counter where it was.
C21_Witness ==
    /\ call.op = "create_entity"
    /\ ret < next_id - 1
    /\ Len(available_ids) >= 1
    /\ destroys >= 2
    /\ ret \in entities

\* C22: the live set and the free list are disjoint, the free list holds no
\* id twice, and together they hold exactly the ids 1 .. next_id-1.
C22_LiveAndFreePartitionMinted ==
    /\ entities \cap Range(available_ids) = {}
    /\ NoDuplicates(available_ids)
    /\ entities \cup Range(available_ids) = 1 .. (next_id - 1)

\* C22 witness: ids were minted, some are live, some are free, and one of the
\* free ones has been reused before.
C22_Witness ==
    /\ next_id >= 4
    /\ entities # {}
    /\ Len(available_ids) >= 2
    /\ creates > next_id - 1

\* C24: the number of identifiers minted so far, next_id - 1, is the largest
\* number of entities that were live at the same time so far; a create_entity
\* that does not raise that number leaves the counter alone.
C24_MintedIsPeakLive ==
    /\ next_id - 1 = peak
    /\ Cardinality(entities) <= peak

\* C24 witness: more creations than identifiers: cycles of create and destroy
\* at a live count of at most two have left the counter at 3.
C24_Witness ==
    /\ next_id = 3
    /\ peak = 2
    /\ creates >= 4
    /\ destroys >= 3

\* C23: for a caller that attaches components to live entities only, the
\* identifier create_entity returns has no component attached when it is
\* returned, also when it is a reused identifier.
C23_CreatedHasNoComponent ==
    call.op = "create_entity" => ~has_component(ret)

\* C25: entity_destroyed(e) removes e's component when one is attached and
\* changes nothing otherwise; a second call right after the first leaves the
\* store as the first left it; the component of every other entity stays.
C25_EntityDestroyedDropsOnlyItsOwn ==
    [][\A e \in Keys :
          (call'.op = "entity_destroyed" /\ call'.entity_id = e)
             => /\ ~has_component(e)'
                /\ ~has_component(e) => components' = components
                /\ (call.op = "entity_destroyed" /\ call.entity_id = e)
                      => components' = components
                /\ \A e2 \in Keys \ {e} :
                      /\ has_component(e2)' <=> has_component(e2)
                      /\ get_component(e2)' = get_component(e2)]_vars

\* C25 witness: entity_destroyed has just removed a component while another
\* entity keeps its own.
C25_Witness ==
    /\ call.op = "entity_destroyed"
    /\ call.had
    /\ ~has_component(call.entity_id)
    /\ \E e2 \in Keys : e2 # call.entity_id /\ has_component(e2)

\* C26: add_component(e, v) succeeds for every identifier e whatever the
\* entity manager holds: it attaches v also when e is 0, was never issued or
\* has been destroyed, and it leaves the live set, the free list, the counter
\* and the entity count as they were.
C26_AddIgnoresEntityManager ==
    [][\A e \in Keys :
          (call'.op = "add_component" /\ call'.entity_id = e)
             => /\ ret' = None
                /\ has_component(e)'
                /\ get_component(e)' = call'.data
                /\ UNCHANGED emVars
                /\ get_entity_count' = get_entity_count]_vars

\* C26 witness: add_component has just attached a component to a destroyed
\* identifier, and the identifier 0 and a never issued one carry one too.
C26_Witness ==
    /\ call.op = "add_component"
    /\ call.entity_id \in Range(available_ids)
    /\ has_component(call.entity_id)
    /\ has_component(0)
    /\ \E e \in Keys : e >= next_id /\ has_component(e)

\* C27: is_entity_valid, get_entity_count, has_component and get_component
\* are pure: a call of one of them leaves the live set, the free list, the
\* counter and the component store unchanged, and a query repeated right
\* after itself returns what it returned before.
C27_QueriesArePure ==
    [][call'.op \in QueryNames
          => /\ UNCHANGED <<entities, next_id, available_ids, components, heap>>
             /\ (call.op = call'.op /\ call.entity_id = call'.entity_id)
                   => ret' = ret]_vars

\* C27 witness: get_component has just missed on an entity without component
\* while entities are live, ids are free and another entity has a component.
C27_Witness ==
    /\ call.op = "get_component"
    /\ ret = None
    /\ ~has_component(call.entity_id)
    /\ components # EmptyDict
    /\ entities # {}
    /\ available_ids # <<>>

\* C28: Game.on_update keeps one callback slot: on_update(c) makes c the
\* game's update_callback, returns c and changes nothing else in the game, its
\* engine or another game; the slot changes in no other way; and the callback
\* a frame invokes is the one the slot holds, the one registered last.
C28_SingleCallbackSlot ==
    [][\A g \in Games :
          /\ (call'.on = g /\ call'.op = "on_update")
                => /\ games' = [games EXCEPT ![g].update_callback = call'.data]
                   /\ ret' = call'.data
                   /\ engine' = engine
          /\ games'[g].update_callback # games[g].update_callback
                => call'.on = g /\ call'.op = "on_update"
          /\ (call'.on = g /\ call'.op = "run_callback"
                /\ games'[g].pc = "in_callback")
                => /\ Len(games'[g].events) = 1
                   /\ games'[g].events[1].fn = games[g].update_callback]_vars

\* C28 witness: inside a frame that invoked c1, on_update(c2) has just
\* replaced c1 in the slot.
C28_Witness ==
    /\ call.on = "g1"
    /\ call.op = "on_update"
    /\ call.data = "c2"
    /\ ret = "c2"
    /\ games["g1"].pc = "in_callback"
    /\ games["g1"].events[1].fn = "c1"
    /\ games["g1"].update_callback = "c2"

C30_NoEngineCallAfterShutdown ==
    [][\A g \in Games :
          (call'.on = g /\ call'.op \in {"run_update", "run_render", "create_sprite"})
             => engine[g].state # "shutdown"]_vars

CellsOf(grid) ==
    {rc \in (1 .. Len(grid)) \X (1 .. MaxDim + 1) : rc[2] <= Len(grid[rc[1]])}

\* C32: add_piece(col, row, t) on a puzzle that has a grid, with
\* 0 <= row < grid_height and 0 <= col < grid_width, appends one piece with
\* that col, row and type to pieces, puts that piece in grid[row][col],
\* leaves every other cell alone and returns the piece; with no grid or with
\* a coordinate out of range it returns None and changes nothing.
C32_AddPieceStoresOrRefuses ==
    [][\A col \in Cols, row \in Rows, t \in PieceTypes :
          (/\ call'.on = "puzzle" /\ call'.op = "add_piece"
           /\ AddPiece(col, row, t)) =>
              IF /\ ~puzzle.grid_is_none
                 /\ 0 <= row /\ row < puzzle.grid_height
                 /\ 0 <= col /\ col < puzzle.grid_width
                 THEN /\ puzzle'.pieces =
                            Append(puzzle.pieces,
                                   [col |-> col, row |-> row, type |-> t])
                      /\ ret' = Len(puzzle'.pieces)
                      /\ puzzle'.grid[row + 1][col + 1] = ret'
                      /\ CellsOf(puzzle'.grid) = CellsOf(puzzle.grid)
                      /\ \A rc \in CellsOf(puzzle.grid) :
                            rc # <<row + 1, col + 1>> =>
                                puzzle'.grid[rc[1]][rc[2]] = puzzle.grid[rc[1]][rc[2]]
                      /\ puzzle'.grid_width = puzzle.grid_width
                      /\ puzzle'.grid_height = puzzle.grid_height
                      /\ puzzle'.grid_is_none = puzzle.grid_is_none
                 ELSE /\ ret' = NoPiece
                      /\ puzzle' = puzzle]_vars

\* A second piece was added, to the cell next to the first.
C32_Witness ==
    /\ call.on = "puzzle" /\ call.op = "add_piece"
    /\ Len(puzzle.pieces) = 2
    /\ puzzle.grid_width = 2 /\ puzzle.grid_height = 1
    /\ puzzle.grid[1][1] = 1 /\ puzzle.grid[1][2] = 2
    /\ ret = 2

\* ---------------------------------------------------------------- C33

\* The cell that grid[row][col] names, as a <<row, col>> position.
CellAt(grid, col, row) ==
    <<PyIndex(row, Len(grid)),
      PyIndex(col, Len(grid[PyIndex(row, Len(grid))]))>>

\* C33: swap_pieces(c1, r1, c2, r2) on two cells of the grid puts in each
\* what the other held, leaves every other cell, the size of the grid and
\* the pieces list alone; the same swap applied twice gives the grid back,
\* and the swap of a cell with itself gives the grid back.
C33_SwapExchangesTwoCells ==
    [][\A col1, col2 \in Cols, row1, row2 \in Rows :
          (/\ call'.on = "puzzle" /\ call'.op = "swap_pieces"
           /\ SwapPieces(col1, row1, col2, row2)
           /\ GridIsTrue
           /\ CellOk(col1, row1) /\ CellOk(col2, row2)) =>
              /\ ret' = None
              /\ Cell(puzzle'.grid, col1, row1) = Cell(puzzle.grid, col2, row2)
              /\ Cell(puzzle'.grid, col2, row2) = Cell(puzzle.grid, col1, row1)
              /\ CellsOf(puzzle'.grid) = CellsOf(puzzle.grid)
              /\ \A rc \in CellsOf(puzzle.grid) :
                    (/\ rc # CellAt(puzzle.grid, col1, row1)
                     /\ rc # CellAt(puzzle.grid, col2, row2)) =>
                        puzzle'.grid[rc[1]][rc[2]] = puzzle.grid[rc[1]][rc[2]]
              /\ [puzzle' EXCEPT !.grid = puzzle.grid] = puzzle
              /\ swapped(puzzle'.grid, col1, row1, col2, row2) = puzzle.grid
              /\ swapped(puzzle.grid, col1, row1, col1, row1) = puzzle.grid]_vars

\* Two pieces have changed places.
C33_Witness ==
    /\ call.on = "puzzle" /\ call.op = "swap_pieces" /\ ret = None
    /\ Len(puzzle.pieces) = 2
    /\ puzzle.pieces[1].col = 0 /\ puzzle.pieces[2].col = 1
    /\ puzzle.grid_width = 2 /\ puzzle.grid_height = 1
    /\ puzzle.grid[1][1] = 2 /\ puzzle.grid[1][2] = 1

\* ---------------------------------------------------------------- C34

\* C34: every piece that a cell grid[r][c] holds has r as its row and c as
\* its col.
C34_PieceCoordinatesMatchCell ==
    \A rc \in CellsOf(puzzle.grid) :
        puzzle.grid[rc[1]][rc[2]] # NoPiece =>
            /\ puzzle.pieces[puzzle.grid[rc[1]][rc[2]]].row = rc[1] - 1
            /\ puzzle.pieces[puzzle.grid[rc[1]][rc[2]]].col = rc[2] - 1

\* ---------------------------------------------------------------- C35

\* The pieces that occupy some cell of the grid.
Occupants == {puzzle.grid[rc[1]][rc[2]] : rc \in CellsOf(puzzle.grid)} \ {NoPiece}

\* C35: the pieces list holds exactly the pieces that occupy a cell of the
\* grid, and each of them occupies one cell.
C35_PiecesAreTheOccupants ==
    /\ Occupants = 1 .. Len(puzzle.pieces)
    /\ \A rc1, rc2 \in CellsOf(puzzle.grid) :
          (/\ puzzle.grid[rc1[1]][rc1[2]] # NoPiece
           /\ puzzle.grid[rc1[1]][rc1[2]] = puzzle.grid[rc2[1]][rc2[2]]) => rc1 = rc2


\* ---------------------------------------------------------------- C36

\* C36: add_node appends the node to nodes; start_node is None while no
\* node was added and the first node of nodes afterwards, so no later
\* add_node changes it; execute on a script with no nodes changes nothing.
C36_StartNodeIsFirstAdded ==
    [][/\ (call'.on = "script" /\ call'.op = "add_node") =>
              /\ script'.nodes = Append(script.nodes, call'.data)
              /\ script'.start_node = script'.nodes[1]
              /\ script.nodes # <<>> => script'.start_node = script.start_node
              /\ [script' EXCEPT !.nodes = script.nodes,
                                 !.start_node = script.start_node] = script
       /\ (call'.on = "script" /\ script'.nodes = <<>>) =>
              script'.start_node = None
       /\ (/\ call'.on = "script" /\ call'.op = "execute"
           /\ script.pc = "idle" /\ script.nodes = <<>>) =>
              script' = script]_vars

\* n2 was added after n1, and n1 is the start node.
C36_Witness ==
    /\ call.on = "script" /\ call.op = "add_node" /\ call.data = "n2"
    /\ script.nodes = <<"n1", "n2">>
    /\ script.start_node = "n1"

\* ---------------------------------------------------------------- C37

\* C37: one execute executes no node more than once.
C37_ExecuteRunsEachNodeOnce ==
    \A i, j \in 1 .. Len(script.executed) :
        script.executed[i] = script.executed[j] => i = j


\* ---------------------------------------------------------------- C38

\* C38: after every call the manager has at most max_touch_points active
\* touches, 10 when it is mobile and 1 when it is not; an add_touch_point
\* of a touch whose id is not active, made when max_touch_points touches
\* are active, returns False and changes nothing.
C38_TouchesNeverExceedMax ==
    [][call'.on = "touch" =>
          /\ touch'.max_touch_points = (IF touch'.is_mobile THEN 10 ELSE 1)
          /\ Len(touch'.active_touches) <= touch'.max_touch_points
          /\ (/\ call'.op = "add_touch_point"
              /\ ~call'.had
              /\ Len(touch.active_touches) = touch.max_touch_points) =>
                 (ret' = FALSE /\ touch' = touch)]_vars

\* An eleventh finger was refused by a mobile manager.
C38_Witness ==
    /\ call.on = "touch" /\ call.op = "add_touch_point"
    /\ touch.is_mobile
    /\ Len(touch.active_touches) = 10
    /\ call.entity_id = 11
    /\ ret = FALSE

\* ---------------------------------------------------------------- C39

\* C39: an add_touch_point of a touch whose id is active puts the touch in
\* the place of the active touch with that id, leaves every other touch and
\* the number of touches alone and returns True; no two active touches have
\* the same id.
C39_ReAddReplacesInPlace ==
    [][call'.on = "touch" =>
          /\ (call'.op = "add_touch_point" /\ call'.had) =>
                 /\ ret' = TRUE
                 /\ touch'.active_touches =
                        [touch.active_touches EXCEPT
                            ![IndexOfId(call'.entity_id)] =
                                [id |-> call'.entity_id, x |-> call'.data]]
          /\ \A i, j \in 1 .. Len(touch'.active_touches) :
                 touch'.active_touches[i].id = touch'.active_touches[j].id => i = j]_vars

\* ---------------------------------------------------------------- C40

====
